---- MODULE Spec2Model ----
(***************************************************************************)
(* Model of get_excel_data (maintenance_IMS_AUTO.py): the per-sheet scan    *)
(* for input columns followed by the row walk that builds the               *)
(* sheet -> category -> task -> description + inputs hierarchy.             *)
(***************************************************************************)
EXTENDS Integers, Sequences, FiniteSets, TLC

(***************************************************************************)
(* Bounds of the model.                                                     *)
(***************************************************************************)
\* number of worksheets of the workbook
MaxSheets == 2
\* number of columns of a worksheet (sheet.max_column); column 1 is "A"
NumCols == 2
\* total number of rows the walk visits in one run, over all sheets
MaxWalk == 4
\* number of rows walked below the anchor row of a task
MaxFrags == 3
\* number of rows of the worksheet whose cells are all held in the state
GridRows == 3

(***************************************************************************)
(* Cell values.  openpyxl yields None, a number or a text; one record shape *)
(* carries the three, a text being its sequence of characters.              *)
(***************************************************************************)
None == [t |-> "none", s |-> <<>>, n |-> 0]
Str(chars) == [t |-> "str", s |-> chars, n |-> 0]
Num(k) == [t |-> "int", s |-> <<>>, n |-> k]

\* Python truthiness of a cell value, as tested by `if current_category`
Truthy(v) == CASE v.t = "none" -> FALSE
               [] v.t = "int" -> v.n # 0
               [] OTHER -> Len(v.s) > 0

Comments == Str(<<"C", "o", "m", "m", "e", "n", "t", "s">>)
NoInput == Str(<<"n", "o", " ", "i", "n", "p", "u", "t">>)
EmptyStr == Str(<<>>)
Yellow == "FFFFFF00"
NoFill == "00000000"

OK == Str(<<"O", "K">>)
OKQ == Str(<<"O", "K", "?">>)
DateWho == Str(<<"D", "a", "t", "e", " ", "I", "n", "s", "p", "e", "c", "t", "e", "d",
                 " ", "b", "y", " ", "w", "h", "o">>)
DateWhoQ == Str(DateWho.s \o <<"?">>)
HeaderLabels == {DateWhoQ, OK, OKQ, DateWho}

Cols == 1 .. NumCols

(***************************************************************************)
(* The values the worksheets of the model are filled with.                  *)
(***************************************************************************)
LeadValues == {None, Str(<<"b", " ">>), Comments, Num(0)}
CellValues == {None, OK, Comments}
HeaderValues == {None, OK}
Fills == {Yellow, NoFill}

\* The rows a sheet whose scan found input_columns can hold: a header label
\* lies only in a column the scan flagged (the scan reads every cell of the
\* sheet, so every other row is one the scan would have flagged more for).
RowsOf(ic) ==
    { r \in [lead : LeadValues, bold : BOOLEAN, fill : Fills,
             cells : [2 .. NumCols -> CellValues]] :
        /\ \A c \in 2 .. NumCols : r.cells[c] \in HeaderLabels => c \in ic
        /\ r.lead \in HeaderLabels => 1 \in ic }

\* Row 1 of a sheet: any leading cell, header labels where the sheet has them.
HeaderRows ==
    [lead : LeadValues \cup HeaderValues, bold : BOOLEAN, fill : Fills,
     cells : [2 .. NumCols -> HeaderValues]]

\* the values of the cells of a row, by column
RowCells(row) == [c \in Cols |-> IF c = 1 THEN row.lead ELSE row.cells[c]]

\* iter_rows(min_row=2 - 1): the walk would start on row 1
FirstRow_one == 2 - 1

\* iter_rows(min_row=2): the first row of the walk
FirstRow == 2

(***************************************************************************)
(* First pass: the columns holding a header label in any of the given rows. *)
(***************************************************************************)
ScanColumns(rows) ==
    { c \in Cols : \E i \in 1 .. Len(rows) : rows[i][c] \in HeaderLabels }

(***************************************************************************)
(* Records of the output.  A task carries, besides the three serialised     *)
(* fields, `row`: the task_row stored when the task was created (history).  *)
(***************************************************************************)
NoRow == 0
EmptyInputs == [k \in {} |-> None]
NewSheetData(title) == [sheet |-> title, categories |-> <<>>]
NewCategory(name) == [category |-> name, tasks |-> <<>>]
NewTask(name, r) == [task |-> name, description |-> EmptyStr, inputs |-> EmptyInputs, row |-> r]

HasCategory(sd) == Len(sd.categories) > 0
LastCategory(sd) == sd.categories[Len(sd.categories)]
HasTask(sd) == HasCategory(sd) /\ Len(LastCategory(sd).tasks) > 0
LastTask(sd) == LastCategory(sd).tasks[Len(LastCategory(sd).tasks)]

\* sheet_data["categories"][-1]["tasks"].append(t)
AppendTask(sd, t) ==
    [sd EXCEPT !.categories[Len(sd.categories)].tasks = Append(@, t)]
\* sheet_data["categories"][-1]["tasks"][-1] = t
SetLastTask(sd, t) ==
    [sd EXCEPT !.categories[Len(sd.categories)].tasks[Len(LastCategory(sd).tasks)] = t]

(***************************************************************************)
(* The locals of the row walk, as one record: what one iteration of the     *)
(* loop over the rows reads and writes.  `raised` is set when the           *)
(* iteration ends in an exception, which leaves get_excel_data.             *)
(***************************************************************************)
FreshWalk(title, ic, tr) ==
    [sheet_data |-> NewSheetData(title), current_category |-> None,
     current_task |-> None, input_columns |-> ic, input_rows |-> {},
     comments_section |-> FALSE, task_row |-> tr, raised |-> FALSE]

\* OpenLocals without `current_task = None`
OpenLocals_keepsTask(st, title, ic) ==
    [FreshWalk(title, ic, NoRow) EXCEPT !.task_row = st.task_row,
                                        !.current_task = st.current_task]

\* OpenLocals without `current_category = None`
OpenLocals_keepsCategory(st, title, ic) ==
    [FreshWalk(title, ic, NoRow) EXCEPT !.task_row = st.task_row,
                                        !.current_category = st.current_category]

\* the head of the loop over the sheets: every local of the walk is assigned
\* anew but task_row, which keeps the value the sheet before left
OpenLocals(st, title, ic) ==
    [FreshWalk(title, ic, NoRow) EXCEPT !.task_row = st.task_row]

\* Classify whose description branch lacks `not comments_section`
Classify_describesInComments(st, row) ==
    IF row.lead = None THEN "blank"
    ELSE IF row.fill = Yellow /\ row.bold THEN "category"
    ELSE IF row.bold /\ Truthy(st.current_category) /\ ~st.comments_section THEN "task"
    ELSE IF Truthy(st.current_task) /\ ~row.bold THEN "description"
    ELSE IF row.bold /\ Truthy(st.current_category) /\ st.comments_section THEN "comment"
    ELSE "other"

\* the branch of the if/elif chain a row takes
Classify(st, row) ==
    IF row.lead = None THEN "blank"
    ELSE IF row.fill = Yellow /\ row.bold THEN "category"
    ELSE IF row.bold /\ Truthy(st.current_category) /\ ~st.comments_section THEN "task"
    ELSE IF Truthy(st.current_task) /\ ~row.bold /\ ~st.comments_section THEN "description"
    ELSE IF row.bold /\ Truthy(st.current_category) /\ st.comments_section THEN "comment"
    ELSE "other"

\* CategoryBranch without `current_task = None`
CategoryBranch_keepsTask(st, row) ==
    [st EXCEPT !.current_category = row.lead,
               !.sheet_data.categories = Append(@, NewCategory(row.lead)),
               !.comments_section = FALSE]

CategoryBranch(st, row) ==
    [st EXCEPT !.current_category = row.lead,
               !.sheet_data.categories = Append(@, NewCategory(row.lead)),
               !.current_task = None,
               !.comments_section = FALSE]

\* TaskBranch appending to categories[0] instead of categories[-1]
TaskBranch_toFirstCategory(st, row, rowno) ==
    IF ~HasCategory(st.sheet_data) THEN [st EXCEPT !.raised = TRUE]
    ELSE [st EXCEPT !.current_task = row.lead,
                    !.task_row = rowno,
                    !.input_rows = @ \cup {rowno},
                    !.sheet_data.categories[1].tasks = Append(@, NewTask(row.lead, rowno))]

\* the task branch and the comment-item branch have the same body
TaskBranch(st, row, rowno) ==
    IF ~HasCategory(st.sheet_data) THEN [st EXCEPT !.raised = TRUE]
    ELSE [st EXCEPT !.current_task = row.lead,
                    !.task_row = rowno,
                    !.input_rows = @ \cup {rowno},
                    !.sheet_data = AppendTask(@, NewTask(row.lead, rowno))]

\* DescriptionBranch with cell_value put before the description
DescriptionBranch_prepends(st, row) ==
    IF ~HasTask(st.sheet_data) THEN [st EXCEPT !.raised = TRUE]
    ELSE LET t == LastTask(st.sheet_data)
             d == t.description
         IN IF Truthy(d)
            THEN IF d.t = "str" /\ row.lead.t = "str"
                 THEN [st EXCEPT !.sheet_data =
                          SetLastTask(@, [t EXCEPT !.description = Str(row.lead.s \o <<" ">> \o d.s)])]
                 ELSE [st EXCEPT !.raised = TRUE]
            ELSE [st EXCEPT !.sheet_data = SetLastTask(@, [t EXCEPT !.description = row.lead])]

\* description += " " + cell_value, or description = cell_value
DescriptionBranch(st, row) ==
    IF ~HasTask(st.sheet_data) THEN [st EXCEPT !.raised = TRUE]
    ELSE LET t == LastTask(st.sheet_data)
             d == t.description
         IN IF Truthy(d)
            THEN IF d.t = "str" /\ row.lead.t = "str"
                 THEN [st EXCEPT !.sheet_data =
                          SetLastTask(@, [t EXCEPT !.description = Str(d.s \o <<" ">> \o row.lead.s)])]
                 ELSE [st EXCEPT !.raised = TRUE]
            ELSE [st EXCEPT !.sheet_data = SetLastTask(@, [t EXCEPT !.description = row.lead])]

Branch(st, row, rowno) ==
    LET k == Classify(st, row)
    IN CASE k = "category" -> CategoryBranch(st, row)
         [] k = "task" -> TaskBranch(st, row, rowno)
         [] k = "description" -> DescriptionBranch(st, row)
         [] k = "comment" -> TaskBranch(st, row, rowno)
         [] OTHER -> st

\* InputCells without the test `cell.row == task_row`
InputCells_anyRow(st, rowno) ==
    IF Truthy(st.current_category) /\ Truthy(st.current_task)
    THEN {c \in 2 .. NumCols : c \in st.input_columns}
    ELSE {}

\* the columns of row[1:] whose cell the input loop stores
InputCells(st, rowno) ==
    IF Truthy(st.current_category) /\ Truthy(st.current_task)
    THEN {c \in 2 .. NumCols : c \in st.input_columns /\ rowno = st.task_row}
    ELSE {}

\* `cell.row == task_row` is evaluated while task_row was never assigned
UnboundRead(st) ==
    /\ Truthy(st.current_category) /\ Truthy(st.current_task)
    /\ st.task_row = NoRow
    /\ \E c \in 2 .. NumCols : c \in st.input_columns

MaxOf(S) == CHOOSE x \in S : \A y \in S : y <= x

\* the input loop: stores each matching cell under its coordinate <<column, row>>
ProcessInputs(st, row, rowno) ==
    LET m == InputCells(st, rowno)
    IN IF st.raised THEN st
       ELSE IF UnboundRead(st) THEN [st EXCEPT !.raised = TRUE]
       ELSE IF m = {} THEN st
       ELSE IF ~HasTask(st.sheet_data) THEN [st EXCEPT !.raised = TRUE]
       ELSE LET t == LastTask(st.sheet_data)
                keys == DOMAIN t.inputs \cup {<<c, rowno>> : c \in m}
                new == [k \in keys |->
                          IF k[2] = rowno /\ k[1] \in m
                          THEN IF row.cells[k[1]] # None THEN row.cells[k[1]] ELSE NoInput
                          ELSE t.inputs[k]]
            IN [st EXCEPT !.sheet_data = SetLastTask(@, [t EXCEPT !.inputs = new])]

\* the value of the local cell_value after the input loop, which reuses the name
CellValueAfter(st, row, rowno) ==
    LET m == InputCells(st, rowno)
    IN IF m = {} THEN row.lead ELSE row.cells[MaxOf(m)]

\* RowStep whose blank-row exit also clears current_task
RowStep_blankClearsTask(st, row, rowno) ==
    IF row.lead = None THEN [st EXCEPT !.current_task = None]
    ELSE LET b == Branch(st, row, rowno)
             p == ProcessInputs(b, row, rowno)
         IN IF p.raised THEN [st EXCEPT !.raised = TRUE]
            ELSE IF CellValueAfter(b, row, rowno) = Comments
                 THEN [p EXCEPT !.comments_section = TRUE]
                 ELSE p

\* one iteration of the loop over the rows
RowStep(st, row, rowno) ==
    IF row.lead = None THEN st
    ELSE LET b == Branch(st, row, rowno)
             p == ProcessInputs(b, row, rowno)
         IN IF p.raised THEN [st EXCEPT !.raised = TRUE]
            ELSE IF CellValueAfter(b, row, rowno) = Comments
                 THEN [p EXCEPT !.comments_section = TRUE]
                 ELSE p

(***************************************************************************)
(* State.  The locals of get_excel_data keep their names.                   *)
(*   pc          where the run is: "load", "sheets" (head of the loop over  *)
(*               the worksheets), "walk" (in the loop over the rows),       *)
(*               "done" (returned data), "failed" (returned [] after a load *)
(*               error), "raised" (left by an exception), "main_end" (main  *)
(*               returned)                                                  *)
(*   sheet_no    the worksheet being processed (its title)                  *)
(*   row_idx     the index of the next row of the walk                      *)
(*   walked      rows visited so far in this run                            *)
(*   last        history: branch and leading value of the row just walked, *)
(*               or "header" and the leading value of row 1 when the sheet  *)
(*               was just opened                                            *)
(*   fragments   history: the leading values of the non-bold, non-blank     *)
(*               rows walked since the last task or category row            *)
(*   solo        the locals of a second run of get_excel_data, over a       *)
(*               workbook that holds the current worksheet alone            *)
(*   io          what main and save_to_json did outside the program: the    *)
(*               load failed, the error box was shown, the output file was  *)
(*               created, the save failed, "saved" was printed              *)
(*   hist        history: the fragments the description branch appended to  *)
(*               the last task (appended); the rows of the tasks created    *)
(*               comments_section was true, and the last row of the current *)
(*               category whose leading cell is "Comments"                  *)
(*   grid        the cell values of a worksheet held in full (SpecScan)     *)
(***************************************************************************)
VARIABLES pc, sheet_no, row_idx, walked, last, fragments, data, sheet_data, current_category,
          current_task, input_columns, input_rows, comments_section, task_row, solo,
          io, hist, grid

vars == <<pc, sheet_no, row_idx, walked, last, fragments, data, sheet_data, current_category,
          current_task, input_columns, input_rows, comments_section, task_row, solo,
          io, hist, grid>>

\* the locals of the walk as a record
Walk ==
    [sheet_data |-> sheet_data, current_category |-> current_category,
     current_task |-> current_task, input_columns |-> input_columns,
     input_rows |-> input_rows, comments_section |-> comments_section,
     task_row |-> task_row, raised |-> FALSE]

SetWalk(st) ==
    /\ sheet_data' = st.sheet_data
    /\ current_category' = st.current_category
    /\ current_task' = st.current_task
    /\ input_columns' = st.input_columns
    /\ input_rows' = st.input_rows
    /\ comments_section' = st.comments_section
    /\ task_row' = st.task_row

NoLast == [kind |-> "none", lead |-> None]
NoHist == [comment_rows |-> {}, marker_row |-> NoRow, appended |-> <<>>]
NoIO == [load_failed |-> FALSE, error_shown |-> FALSE, file_created |-> FALSE,
         save_failed |-> FALSE, printed_saved |-> FALSE]

Init ==
    /\ pc = "load"
    /\ sheet_no = 0
    /\ row_idx = 2
    /\ walked = 0
    /\ last = NoLast
    /\ fragments = <<>>
    /\ data = <<>>
    /\ sheet_data = NewSheetData(0)
    /\ current_category = None
    /\ current_task = None
    /\ input_columns = {}
    /\ input_rows = {}
    /\ comments_section = FALSE
    /\ task_row = NoRow
    /\ solo = FreshWalk(0, {}, NoRow)
    /\ io = NoIO
    /\ hist = NoHist
    /\ grid = <<>>

\* openpyxl.load_workbook succeeds: data = [], the loop over the sheets starts
LoadWorkbook ==
    /\ pc = "load"
    /\ pc' = "sheets"
    /\ UNCHANGED <<sheet_no, row_idx, walked, last, fragments, data, sheet_data, current_category,
                   current_task, input_columns, input_rows, comments_section, task_row, solo,
                   io, hist, grid>>

\* openpyxl.load_workbook raises: the error is logged and [] returned
LoadFails ==
    /\ pc = "load"
    /\ pc' = "failed"
    /\ data' = <<>>
    /\ io' = [io EXCEPT !.load_failed = TRUE]
    /\ UNCHANGED <<sheet_no, row_idx, walked, last, fragments, sheet_data, current_category,
                   current_task, input_columns, input_rows, comments_section, task_row, solo,
                   hist, grid>>

\* the head of the loop over the sheets: the locals are reset (task_row is
\* not among them) and the first pass finds the input columns.  hdr is row 1
\* of the sheet; the rows below it add no column (see RowsOf).
OpenSheet ==
    /\ pc = "sheets"
    /\ sheet_no < MaxSheets
    /\ \E hdr \in HeaderRows :
          /\ SetWalk(OpenLocals(Walk, sheet_no + 1, ScanColumns(<<RowCells(hdr)>>)))
          /\ solo' = FreshWalk(sheet_no + 1, ScanColumns(<<RowCells(hdr)>>), NoRow)
          /\ last' = [kind |-> "header", lead |-> hdr.lead]
    /\ sheet_no' = sheet_no + 1
    /\ row_idx' = FirstRow
    /\ fragments' = <<>>
    /\ hist' = NoHist
    /\ pc' = "walk"
    /\ UNCHANGED <<walked, data, io, grid>>

\* the walk is at a row: the sheet has a row row_idx
AtRow ==
    /\ pc = "walk"
    /\ walked < MaxWalk

\* hist after the walk visited row: a task created while comments_section was
\* true is noted; a category row forgets the marker of the category before
HistAfter(row, rowno) ==
    LET k == Classify(Walk, row)
    IN [comment_rows |-> IF k \in {"task", "comment"} /\ comments_section
                         THEN hist.comment_rows \cup {rowno} ELSE hist.comment_rows,
        marker_row |-> IF row.lead = Comments THEN rowno
                       ELSE IF k = "category" THEN NoRow
                       ELSE hist.marker_row,
        appended |-> IF k \in {"category", "task", "comment"} THEN <<>>
                     ELSE IF k = "description" THEN Append(hist.appended, row.lead)
                     ELSE hist.appended]

FragmentsAfter(kind, row) ==
    IF kind \in {"category", "task", "comment"} THEN <<>>
    ELSE IF row.lead # None /\ ~row.bold THEN Append(fragments, row.lead)
    ELSE fragments

\* one iteration of the loop over the rows that ends normally, on row
Iterate(row) ==
    /\ ~RowStep(Walk, row, row_idx).raised
    /\ SetWalk(RowStep(Walk, row, row_idx))
    /\ solo' = RowStep(solo, row, row_idx)
    /\ last' = [kind |-> Classify(Walk, row), lead |-> row.lead]
    /\ fragments' = FragmentsAfter(Classify(Walk, row), row)
    /\ row_idx' = row_idx + 1
    /\ walked' = walked + 1
    /\ hist' = HistAfter(row, row_idx)
    /\ UNCHANGED <<pc, sheet_no, data, io, grid>>

\* the leading cell is empty: continue
BlankRow ==
    /\ AtRow
    /\ \E row \in RowsOf(input_columns) :
          Classify(Walk, row) = "blank" /\ Iterate(row)

\* the leading cell is bold on yellow
CategoryRow ==
    /\ AtRow
    /\ \E row \in RowsOf(input_columns) :
          Classify(Walk, row) = "category" /\ Iterate(row)

\* the leading cell is bold, a category is current, outside the comments section
TaskRow ==
    /\ AtRow
    /\ \E row \in RowsOf(input_columns) :
          Classify(Walk, row) = "task" /\ Iterate(row)

\* the leading cell is not bold, a task is current, outside the comments section
DescriptionRow ==
    /\ AtRow
    /\ \E row \in RowsOf(input_columns) :
          Classify(Walk, row) = "description" /\ Iterate(row)

\* the leading cell is bold, a category is current, inside the comments section
CommentItemRow ==
    /\ AtRow
    /\ \E row \in RowsOf(input_columns) :
          Classify(Walk, row) = "comment" /\ Iterate(row)

\* no branch of the chain is taken
OtherRow ==
    /\ AtRow
    /\ \E row \in RowsOf(input_columns) :
          Classify(Walk, row) = "other" /\ Iterate(row)

\* an iteration that ends in an exception: get_excel_data is left, nothing is returned
RowRaises ==
    /\ AtRow
    /\ \E row \in RowsOf(input_columns) :
          /\ RowStep(Walk, row, row_idx).raised
          /\ solo' = RowStep(solo, row, row_idx)
          /\ last' = [kind |-> Classify(Walk, row), lead |-> row.lead]
    /\ pc' = "raised"
    /\ UNCHANGED <<sheet_no, row_idx, walked, fragments, data, sheet_data, current_category,
                   current_task, input_columns, input_rows, comments_section, task_row,
                   io, hist, grid>>

\* the rows of the sheet are exhausted: data.append(sheet_data)
CloseSheet ==
    /\ pc = "walk"
    /\ data' = Append(data, sheet_data)
    /\ pc' = "sheets"
    /\ UNCHANGED <<sheet_no, row_idx, walked, last, fragments, sheet_data, current_category,
                   current_task, input_columns, input_rows, comments_section, task_row, solo,
                   io, hist, grid>>

\* the sheets are exhausted: return data
Return ==
    /\ pc = "sheets"
    /\ sheet_no >= 1
    /\ pc' = "done"
    /\ UNCHANGED <<sheet_no, row_idx, walked, last, fragments, data, sheet_data, current_category,
                   current_task, input_columns, input_rows, comments_section, task_row, solo,
                   io, hist, grid>>

Next ==
    \/ LoadWorkbook
    \/ LoadFails
    \/ OpenSheet
    \/ BlankRow
    \/ CategoryRow
    \/ TaskRow
    \/ DescriptionRow
    \/ CommentItemRow
    \/ OtherRow
    \/ RowRaises
    \/ CloseSheet
    \/ Return

Spec == Init /\ [][Next]_vars

(***************************************************************************)
(* main after get_excel_data returned, and save_to_json.                    *)
(***************************************************************************)
\* SkipsSave with the test `if not data` left out
SkipsSave_never(d) == FALSE

\* `if not data`: main shows the error box and returns without saving
SkipsSave(d) == Len(d) = 0

Returned == pc \in {"done", "failed"}

MainNoData ==
    /\ Returned
    /\ SkipsSave(data)
    /\ io' = [io EXCEPT !.error_shown = TRUE]
    /\ pc' = "main_end"
    /\ UNCHANGED <<sheet_no, row_idx, walked, last, fragments, data, sheet_data, current_category,
                   current_task, input_columns, input_rows, comments_section, task_row, solo,
                   hist, grid>>

\* save_to_json writes the file; main prints "Data extracted and saved to ..."
SaveWrites ==
    /\ Returned
    /\ ~SkipsSave(data)
    /\ io' = [io EXCEPT !.file_created = TRUE, !.printed_saved = TRUE]
    /\ pc' = "main_end"
    /\ UNCHANGED <<sheet_no, row_idx, walked, last, fragments, data, sheet_data, current_category,
                   current_task, input_columns, input_rows, comments_section, task_row, solo,
                   hist, grid>>

\* open or json.dump raises: save_to_json catches the exception and logs it,
\* main goes on to its print.  The file exists when open succeeded.
SaveFails ==
    /\ Returned
    /\ ~SkipsSave(data)
    /\ \E created \in BOOLEAN :
          io' = [io EXCEPT !.save_failed = TRUE, !.file_created = created,
                           !.printed_saved = TRUE]
    /\ pc' = "main_end"
    /\ UNCHANGED <<sheet_no, row_idx, walked, last, fragments, data, sheet_data, current_category,
                   current_task, input_columns, input_rows, comments_section, task_row, solo,
                   hist, grid>>

NextMain ==
    \/ Next
    \/ MainNoData
    \/ SaveWrites
    \/ SaveFails

SpecMain == Init /\ [][NextMain]_vars

(***************************************************************************)
(* The two passes over one worksheet whose cells are all held in `grid`:    *)
(* the scan for the input columns, row by row from the first row of the     *)
(* sheet, then the row walk over the same cells.  Bold and fill of a        *)
(* leading cell are drawn when the walk reaches the row.                    *)
(***************************************************************************)
\* "OK " is no header label: the scan compares whole values
GridValues == {None, OKQ, Str(<<"O", "K", " ">>)}
Grids == [1 .. GridRows -> [Cols -> GridValues]]

\* the scan would start below row 1
ScanFirstRow_two == 1 + 1

\* sheet.iter_rows() of the scan: from row 1
ScanFirstRow == 1

\* the row of the walk made of the cells of row r of the grid
GridRowAt(r, bold, fill) ==
    [lead |-> grid[r][1], bold |-> bold, fill |-> fill,
     cells |-> [c \in 2 .. NumCols |-> grid[r][c]]]

\* the head of the loop over the sheets has run for the first sheet
InitScan ==
    /\ pc = "scan"
    /\ grid \in Grids
    /\ sheet_no = 1
    /\ row_idx = ScanFirstRow
    /\ walked = 0
    /\ last = NoLast
    /\ fragments = <<>>
    /\ data = <<>>
    /\ sheet_data = NewSheetData(1)
    /\ current_category = None
    /\ current_task = None
    /\ input_columns = {}
    /\ input_rows = {}
    /\ comments_section = FALSE
    /\ task_row = NoRow
    /\ solo = FreshWalk(1, {}, NoRow)
    /\ io = NoIO
    /\ hist = NoHist

\* one row of the scan: the column of every cell holding a label is added
ScanRow ==
    /\ pc = "scan"
    /\ row_idx <= GridRows
    /\ input_columns' = input_columns \cup ScanColumns(<<grid[row_idx]>>)
    /\ row_idx' = row_idx + 1
    /\ UNCHANGED <<pc, sheet_no, walked, last, fragments, data, sheet_data, current_category,
                   current_task, input_rows, comments_section, task_row, solo, io, hist, grid>>

\* the scan has read the last row: the row walk starts
ScanDone ==
    /\ pc = "scan"
    /\ row_idx > GridRows
    /\ pc' = "walk"
    /\ row_idx' = FirstRow
    /\ solo' = [solo EXCEPT !.input_columns = input_columns]
    /\ UNCHANGED <<sheet_no, walked, last, fragments, data, sheet_data, current_category,
                   current_task, input_columns, input_rows, comments_section, task_row,
                   io, hist, grid>>

\* one iteration of the walk on row row_idx of the grid
GridRow ==
    /\ pc = "walk"
    /\ row_idx <= GridRows
    /\ \E bold \in BOOLEAN, fill \in Fills :
          LET row == GridRowAt(row_idx, bold, fill)
          IN IF RowStep(Walk, row, row_idx).raised
             THEN /\ pc' = "raised"
                  /\ solo' = RowStep(solo, row, row_idx)
                  /\ last' = [kind |-> Classify(Walk, row), lead |-> row.lead]
                  /\ UNCHANGED <<sheet_no, row_idx, walked, fragments, data, sheet_data,
                                 current_category, current_task, input_columns, input_rows,
                                 comments_section, task_row, io, hist, grid>>
             ELSE Iterate(row)

\* the rows of the grid are exhausted: data.append(sheet_data), return data
GridClose ==
    /\ pc = "walk"
    /\ row_idx > GridRows
    /\ data' = Append(data, sheet_data)
    /\ pc' = "done"
    /\ UNCHANGED <<sheet_no, row_idx, walked, last, fragments, sheet_data, current_category,
                   current_task, input_columns, input_rows, comments_section, task_row, solo,
                   io, hist, grid>>

NextScan ==
    \/ ScanRow
    \/ ScanDone
    \/ GridRow
    \/ GridClose

SpecScan == InitScan /\ [][NextScan]_vars

(***************************************************************************)
(* The rows below the anchor row of a task: the walk has read a category    *)
(* on row 2 and a task on row 3 of the first sheet, and reads non-bold rows *)
(* from row 4 on.                                                           *)
(***************************************************************************)
DescValues == {None, Str(<<"a">>), Str(<<"c">>), Str(<<"b", " ">>), Num(0)}
DescTaskNames == {Str(<<"b", " ">>), Num(0)}

\* a row with nothing but its leading cell
LeadRow(lead, bold, fill) ==
    [lead |-> lead, bold |-> bold, fill |-> fill, cells |-> [c \in 2 .. NumCols |-> None]]

\* the locals after the category row and the anchor row of a task named name
AfterAnchor(name) ==
    RowStep(RowStep(FreshWalk(1, {}, NoRow), LeadRow(Str(<<"b", " ">>), TRUE, Yellow), 2),
            LeadRow(name, TRUE, NoFill), 3)

InitDesc ==
    /\ pc = "walk"
    /\ sheet_no = 1
    /\ row_idx = 4
    /\ walked = 0
    /\ fragments = <<>>
    /\ data = <<>>
    /\ \E name \in DescTaskNames :
          /\ sheet_data = AfterAnchor(name).sheet_data
          /\ current_category = AfterAnchor(name).current_category
          /\ current_task = AfterAnchor(name).current_task
          /\ input_columns = AfterAnchor(name).input_columns
          /\ input_rows = AfterAnchor(name).input_rows
          /\ comments_section = AfterAnchor(name).comments_section
          /\ task_row = AfterAnchor(name).task_row
          /\ solo = AfterAnchor(name)
          /\ last = [kind |-> "task", lead |-> name]
    /\ io = NoIO
    /\ hist = NoHist
    /\ grid = <<>>

\* a non-bold row below the anchor row, the iteration ending normally
BelowAnchorRow ==
    /\ pc = "walk"
    /\ walked < MaxFrags
    /\ \E lead \in DescValues : Iterate(LeadRow(lead, FALSE, NoFill))

\* a non-bold row below the anchor row, the iteration ending in an exception
BelowAnchorRaises ==
    /\ pc = "walk"
    /\ walked < MaxFrags
    /\ \E lead \in DescValues :
          /\ RowStep(Walk, LeadRow(lead, FALSE, NoFill), row_idx).raised
          /\ solo' = RowStep(solo, LeadRow(lead, FALSE, NoFill), row_idx)
          /\ last' = [kind |-> Classify(Walk, LeadRow(lead, FALSE, NoFill)), lead |-> lead]
    /\ pc' = "raised"
    /\ UNCHANGED <<sheet_no, row_idx, walked, fragments, data, sheet_data, current_category,
                   current_task, input_columns, input_rows, comments_section, task_row,
                   io, hist, grid>>

NextDesc ==
    \/ BelowAnchorRow
    \/ BelowAnchorRaises
    \/ CloseSheet

SpecDesc == InitDesc /\ [][NextDesc]_vars

TypeOK ==
    /\ pc \in {"load", "scan", "sheets", "walk", "done", "failed", "raised", "main_end"}
    /\ sheet_no \in 0 .. MaxSheets
    /\ row_idx \in 2 .. MaxWalk + 2
    /\ walked \in 0 .. MaxWalk

(***************************************************************************)
(* The output: the sheet records returned so far and the one being built.   *)
(***************************************************************************)
SheetRecords == {data[i] : i \in 1 .. Len(data)} \cup {sheet_data}
TasksOf(sd) ==
    UNION {{sd.categories[c].tasks[t] : t \in 1 .. Len(sd.categories[c].tasks)} :
              c \in 1 .. Len(sd.categories)}
AllTasks == UNION {TasksOf(sd) : sd \in SheetRecords}

\* a step of the walk within one sheet
WalkStep == pc = "walk" /\ pc' = "walk" /\ sheet_no' = sheet_no /\ row_idx' = row_idx + 1

(***************************************************************************)
(* C1.  Every key of a task's inputs is a coordinate on the task's anchor   *)
(* row, and no row walked after the anchor row adds or changes an entry of  *)
(* the inputs of a task that exists already.                                *)
(***************************************************************************)
InputsOnAnchorRow ==
    \A t \in AllTasks : \A k \in DOMAIN t.inputs : k[2] = t.row

InputsFrozen ==
    WalkStep =>
        \A c \in 1 .. Len(sheet_data.categories) :
            \A t \in 1 .. Len(sheet_data.categories[c].tasks) :
                sheet_data'.categories[c].tasks[t].inputs =
                    sheet_data.categories[c].tasks[t].inputs

C1_InputsOnlyFromAnchorRow == [][InputsOnAnchorRow' /\ InputsFrozen]_vars

\* a task with an input entry, after a description row below its anchor row
C1_Witness ==
    /\ pc = "walk"
    /\ last.kind = "description"
    /\ HasTask(sheet_data)
    /\ DOMAIN LastTask(sheet_data).inputs # {}
    /\ LastTask(sheet_data).row < row_idx - 1

\* the walk visits row and the iteration ends normally
Visits(row) == WalkStep /\ last'.lead = row.lead /\ AtRow /\ Iterate(row)

(***************************************************************************)
(* C2.  A task created on a row has exactly one input entry for each cell   *)
(* of that row whose column is an input column, and no other entry; the     *)
(* entry is the cell's value, or "no input" when the cell is empty.         *)
(***************************************************************************)
\* the cell of column c on row (column 1 is the leading cell)
CellAt(row, c) == IF c = 1 THEN row.lead ELSE row.cells[c]

AnchorInputs(row, rowno, ic) ==
    [k \in {<<c, rowno>> : c \in ic} |->
        IF CellAt(row, k[1]) # None THEN CellAt(row, k[1]) ELSE NoInput]

C2_InputsAreAnchorCells ==
    [][\A row \in RowsOf(input_columns) :
          (Visits(row) /\ Classify(Walk, row) \in {"task", "comment"})
              => LastTask(sheet_data').inputs = AnchorInputs(row, row_idx, input_columns)]_vars

(***************************************************************************)
(* C3.  A row whose leading cell is "Comments" leaves comments_section      *)
(* true, whatever its branch and its other cells, and comments_section      *)
(* stays true until a category row is walked.                               *)
(***************************************************************************)
C3_CommentsRowSetsFlag ==
    [][/\ \A row \in RowsOf(input_columns) :
             (Visits(row) /\ row.lead = Comments) => comments_section'
       /\ (WalkStep /\ comments_section /\ last'.kind # "category") => comments_section']_vars

(***************************************************************************)
(* C4.  A bold, non-blank row that is not a category row, walked while the  *)
(* sheet has a category, appends one task (named by the leading cell, with  *)
(* an empty description) to the last category, in the comments section or   *)
(* out of it.                                                               *)
(***************************************************************************)
AppendsTaskNamed(name) ==
    /\ HasCategory(sheet_data)
    /\ Len(sheet_data'.categories) = Len(sheet_data.categories)
    /\ \A c \in 1 .. Len(sheet_data.categories) - 1 :
          sheet_data'.categories[c] = sheet_data.categories[c]
    /\ LastCategory(sheet_data').category = LastCategory(sheet_data).category
    /\ Len(LastCategory(sheet_data').tasks) = Len(LastCategory(sheet_data).tasks) + 1
    /\ SubSeq(LastCategory(sheet_data').tasks, 1, Len(LastCategory(sheet_data).tasks))
          = LastCategory(sheet_data).tasks
    /\ LastTask(sheet_data').task = name
    /\ LastTask(sheet_data').description = EmptyStr

C4_BoldRowAppendsTask ==
    [][\A row \in RowsOf(input_columns) :
          (/\ Visits(row)
           /\ row.lead # None /\ row.bold /\ row.fill # Yellow
           /\ HasCategory(sheet_data))
              => AppendsTaskNamed(row.lead)]_vars

(***************************************************************************)
(* C5.  The description of the current task is the leading texts of all     *)
(* the non-bold, non-blank rows walked since its anchor row, joined by      *)
(* single spaces, with leading and trailing whitespace removed.             *)
(***************************************************************************)
RECURSIVE DecimalOf(_)
DecimalOf(k) ==
    LET d == <<"0", "1", "2", "3", "4", "5", "6", "7", "8", "9">>
    IN IF k < 10 THEN <<d[k + 1]>> ELSE DecimalOf(k \div 10) \o <<d[(k % 10) + 1]>>

\* the text of a leading cell
TextOf(v) == IF v.t = "str" THEN v.s ELSE IF v.t = "int" THEN DecimalOf(v.n) ELSE <<>>

RECURSIVE JoinSp(_)
JoinSp(fs) ==
    IF Len(fs) = 0 THEN <<>>
    ELSE IF Len(fs) = 1 THEN TextOf(fs[1])
    ELSE JoinSp(SubSeq(fs, 1, Len(fs) - 1)) \o <<" ">> \o TextOf(fs[Len(fs)])

RECURSIVE Strip(_)
Strip(cs) ==
    IF Len(cs) = 0 THEN cs
    ELSE IF cs[1] = " " THEN Strip(Tail(cs))
    ELSE IF cs[Len(cs)] = " " THEN Strip(SubSeq(cs, 1, Len(cs) - 1))
    ELSE cs

C5_DescriptionIsJoinedFragments ==
    (pc = "walk" /\ current_task # None /\ HasTask(sheet_data))
        => LastTask(sheet_data).description = Str(Strip(JoinSp(fragments)))

(***************************************************************************)
(* C6.  The row walk never raises: every row is classified or skipped and   *)
(* the walk ends with one sheet record per sheet.                           *)
(***************************************************************************)
C6_WalkNeverRaises ==
    /\ pc # "raised"
    /\ pc = "done" => Len(data) = sheet_no

(***************************************************************************)
(* C7.  A non-blank, bold, yellow row appends a category with that text and *)
(* no task, clears current_task and leaves comments_section false; while no *)
(* task is current, rows other than task and category rows leave the sheet  *)
(* record as it is.                                                         *)
(***************************************************************************)
AppendsCategory(row) ==
    /\ sheet_data' = [sheet_data EXCEPT !.categories = Append(@, NewCategory(row.lead))]
    /\ current_task' = None

NoTaskNoDescription ==
    (WalkStep /\ current_task = None /\ last'.kind \notin {"category", "task", "comment"})
        => sheet_data' = sheet_data

C7_CategoryRowResets ==
    [][/\ \A row \in RowsOf(input_columns) :
             (row.lead # None /\ row.bold /\ row.fill = Yellow /\ Visits(row))
                 => (AppendsCategory(row) /\ comments_section' = FALSE)
       /\ NoTaskNoDescription]_vars

\* C7 as amended: comments_section is false after the row unless the
\* category's text is "Comments", when it is true
C7_CategoryRowResetsButMarker ==
    [][/\ \A row \in RowsOf(input_columns) :
             (row.lead # None /\ row.bold /\ row.fill = Yellow /\ Visits(row))
                 => (AppendsCategory(row) /\ comments_section' = (row.lead = Comments))
       /\ NoTaskNoDescription]_vars

\* a category row named "Comments" walked below a task of the category before
C7_Witness ==
    /\ pc = "walk"
    /\ last = [kind |-> "category", lead |-> Comments]
    /\ comments_section
    /\ current_task = None
    /\ Len(sheet_data.categories) >= 2
    /\ Len(sheet_data.categories[1].tasks) >= 1
    /\ LastCategory(sheet_data) = NewCategory(Comments)

(***************************************************************************)
(* C8.  A row whose leading cell is empty changes nothing but the position  *)
(* of the walk.                                                             *)
(***************************************************************************)
C8_BlankRowChangesNothing ==
    [][\A row \in RowsOf(input_columns) :
          (row.lead = None /\ Visits(row))
              => UNCHANGED <<current_category, current_task, comments_section, task_row,
                             sheet_data, data, input_columns, input_rows>>]_vars

\* a blank row walked while a task with an input entry is current
C8_Witness ==
    /\ pc = "walk"
    /\ last.kind = "blank"
    /\ Truthy(current_task)
    /\ HasTask(sheet_data)
    /\ DOMAIN LastTask(sheet_data).inputs # {}

(***************************************************************************)
(* C9.  The output only grows: a step keeps the categories of the sheet and *)
(* the tasks of each category, in order and under their names, and appends  *)
(* a task to the last category only; data keeps the sheet records it has.   *)
(***************************************************************************)
TasksExtend(old, new) ==
    /\ Len(new) >= Len(old)
    /\ \A t \in 1 .. Len(old) : new[t].task = old[t].task /\ new[t].row = old[t].row

CategoriesExtend(old, new) ==
    /\ Len(new) >= Len(old)
    /\ \A c \in 1 .. Len(old) :
          /\ new[c].category = old[c].category
          /\ TasksExtend(old[c].tasks, new[c].tasks)
          /\ Len(new[c].tasks) > Len(old[c].tasks) => c = Len(new)
    /\ \A c \in Len(old) + 1 .. Len(new) : new[c].tasks = <<>>

C9_OutputOnlyGrows ==
    [][/\ sheet_no' = sheet_no =>
             /\ sheet_data'.sheet = sheet_data.sheet
             /\ CategoriesExtend(sheet_data.categories, sheet_data'.categories)
       /\ Len(data') >= Len(data)
       /\ SubSeq(data', 1, Len(data)) = data]_vars

\* two categories, each with a task
C9_Witness ==
    /\ pc = "walk"
    /\ Len(sheet_data.categories) = 2
    /\ Len(sheet_data.categories[1].tasks) = 1
    /\ Len(sheet_data.categories[2].tasks) = 1

(***************************************************************************)
(* C10.  The record built for a worksheet, and every local that decides     *)
(* classification and input extraction, equal those of a run over a         *)
(* workbook that holds the worksheet alone, whatever sheets came before.    *)
(***************************************************************************)
C10_SheetsInIsolation ==
    /\ pc = "walk" =>
          /\ sheet_data = solo.sheet_data
          /\ current_category = solo.current_category
          /\ current_task = solo.current_task
          /\ comments_section = solo.comments_section
          /\ input_columns = solo.input_columns
          /\ input_rows = solo.input_rows
          /\ ~solo.raised
    /\ pc = "raised" => solo.raised
    /\ pc \in {"sheets", "done"} /\ Len(data) > 0 => data[Len(data)] = solo.sheet_data

\* a task with an input entry in the second sheet, the first sheet having
\* left a current task and its task_row behind
C10_Witness ==
    /\ pc = "walk"
    /\ sheet_no = 2
    /\ Len(data) = 1
    /\ HasTask(data[1])
    /\ HasTask(sheet_data)
    /\ DOMAIN LastTask(sheet_data).inputs # {}

(***************************************************************************)
(* C11.  When the save fails after a successful extraction, the failure     *)
(* reaches the caller of save_to_json and main, main does not report the    *)
(* data as saved, and the extracted data is still held.                     *)
(***************************************************************************)
C11_SaveFailureIsFatal ==
    io.save_failed => (pc = "raised" /\ ~io.printed_saved /\ Len(data) > 0)

(***************************************************************************)
(* C12.  When the workbook cannot be loaded, get_excel_data returns [] and  *)
(* main ends without calling save_to_json: no file is created or written.   *)
(***************************************************************************)
C12_LoadFailureWritesNothing ==
    io.load_failed =>
        /\ data = <<>>
        /\ pc \in {"failed", "main_end"}
        /\ ~io.file_created /\ ~io.save_failed /\ ~io.printed_saved
        /\ pc = "main_end" => io.error_shown

\* main returned after a failed load
C12_Witness ==
    /\ io.load_failed
    /\ pc = "main_end"
    /\ io.error_shown

(***************************************************************************)
(* C13.  Row 1 is never content: when the walk stands on the first row      *)
(* after it, whatever row 1 held, the sheet has no category, no task and no *)
(* description, the comments flag is off and nothing is current; no task is *)
(* anchored on row 1 and no input entry or marker lies on it.               *)
(***************************************************************************)
C13_FirstRowNeverContent ==
    /\ (pc = "walk" /\ row_idx = 2) =>
          /\ last.kind = "header"
          /\ sheet_data = NewSheetData(sheet_no)
          /\ current_category = None
          /\ current_task = None
          /\ ~comments_section
          /\ input_rows = {}
          /\ fragments = <<>>
    /\ \A t \in AllTasks : t.row >= 2 /\ \A k \in DOMAIN t.inputs : k[2] >= 2
    /\ hist.marker_row # 1
    /\ 1 \notin hist.comment_rows

\* a sheet just opened whose row 1 leads with "Comments" and flags column B
C13_Witness ==
    /\ pc = "walk"
    /\ row_idx = 2
    /\ last = [kind |-> "header", lead |-> Comments]
    /\ 2 \in input_columns

(***************************************************************************)
(* C14.  Once the scan of a sheet has ended, the input-column set is        *)
(* exactly the set of columns holding one of the four header labels in any  *)
(* row of the sheet, row 1 included (empty when no cell matches); nothing   *)
(* is classified while the scan runs, and the row walk never changes the    *)
(* set.                                                                     *)
(***************************************************************************)
LabelledColumns ==
    { c \in Cols : \E r \in 1 .. GridRows :
        \/ grid[r][c] = DateWhoQ
        \/ grid[r][c] = OK
        \/ grid[r][c] = OKQ
        \/ grid[r][c] = DateWho }

C14_InputColumnsExact ==
    /\ pc \in {"walk", "done", "raised"} => input_columns = LabelledColumns
    /\ (pc \in {"walk", "done", "raised"} /\ LabelledColumns = {}) => input_columns = {}
    /\ pc = "scan" =>
          /\ sheet_data = NewSheetData(sheet_no)
          /\ current_category = None
          /\ current_task = None
          /\ walked = 0

\* the only label of the sheet lies in column B of the last row, and the task
\* anchored on that row has taken it as an input
C14_Witness ==
    /\ pc = "done"
    /\ input_columns = {2}
    /\ \A r \in 1 .. GridRows - 1 : \A c \in Cols : grid[r][c] \notin HeaderLabels
    /\ grid[GridRows][2] = OKQ
    /\ HasTask(data[1])
    /\ DOMAIN LastTask(data[1]).inputs # {}

(***************************************************************************)
(* C15.  Splitting the description of a task on single spaces yields the    *)
(* fragments the description rows appended to it, in row order.             *)
(***************************************************************************)
\* str.split(" "): the pieces between the spaces, empty pieces included
RECURSIVE SplitSp(_)
SplitSp(cs) ==
    IF \A i \in 1 .. Len(cs) : cs[i] # " " THEN <<cs>>
    ELSE LET i == CHOOSE k \in 1 .. Len(cs) :
                      cs[k] = " " /\ \A j \in 1 .. k - 1 : cs[j] # " "
         IN <<SubSeq(cs, 1, i - 1)>> \o SplitSp(SubSeq(cs, i + 1, Len(cs)))

\* the description of the last task splits into the fragments appended to it
SplitsIntoAppended ==
    LET d == LastTask(sheet_data).description
    IN /\ d.t = "str"
       /\ SplitSp(d.s) = [i \in 1 .. Len(hist.appended) |-> TextOf(hist.appended[i])]

C15_SplitGivesFragments ==
    (pc \in {"walk", "sheets"} /\ HasTask(sheet_data)) => SplitsIntoAppended

\* a fragment that is a text of one or more characters, none of them a space
OneWord(v) == v.t = "str" /\ Len(v.s) > 0 /\ \A i \in 1 .. Len(v.s) : v.s[i] # " "

(* C15, amended: the round trip holds for a task that received one or more  *)
(* fragments, each a non-empty text without a space.                        *)
C15_SplitGivesOneWordFragments ==
    (/\ pc \in {"walk", "sheets"}
     /\ HasTask(sheet_data)
     /\ Len(hist.appended) > 0
     /\ \A i \in 1 .. Len(hist.appended) : OneWord(hist.appended[i]))
        => SplitsIntoAppended

\* two different one-word fragments were appended, in this order
C15_Witness ==
    /\ pc = "sheets"
    /\ hist.appended = <<Str(<<"c">>), Str(<<"a">>)>>
    /\ LastTask(sheet_data).description = Str(<<"c", " ", "a">>)

(***************************************************************************)
(* C17.  comments_section turns from false to true only in the iteration on *)
(* a row whose leading cell holds "Comments".                               *)
(***************************************************************************)
C17_FlagOnlyOnCommentsRow ==
    [][(WalkStep /\ ~comments_section /\ comments_section') => last'.lead = Comments]_vars

(***************************************************************************)
(* C18.  While comments_section is true a non-bold, non-blank row changes   *)
(* no description and no inputs of any task; a task created while           *)
(* comments_section is true keeps an empty description; and the tasks       *)
(* created above a row that leads with "Comments" receive no text from the  *)
(* rows below that row.                                                     *)
(***************************************************************************)
CommentTextIsNoOp ==
    \A row \in RowsOf(input_columns) :
        (comments_section /\ ~row.bold /\ row.lead # None /\ Visits(row))
            => sheet_data' = sheet_data /\ data' = data

CommentItemsStayEmpty ==
    \A t \in TasksOf(sheet_data) : t.row \in hist.comment_rows => t.description = EmptyStr

FrozenAboveMarker ==
    (WalkStep /\ hist.marker_row # NoRow) =>
        \A c \in 1 .. Len(sheet_data.categories) :
            \A t \in 1 .. Len(sheet_data.categories[c].tasks) :
                sheet_data.categories[c].tasks[t].row < hist.marker_row
                    => sheet_data'.categories[c].tasks[t].description =
                           sheet_data.categories[c].tasks[t].description

C18_CommentsSectionAddsNoText ==
    [][CommentTextIsNoOp /\ CommentItemsStayEmpty' /\ FrozenAboveMarker]_vars

\* a non-bold text row walked below a comment item, in the comments section
C18_Witness ==
    /\ pc = "walk"
    /\ comments_section
    /\ last.kind = "other"
    /\ last.lead = Str(<<"b", " ">>)
    /\ Truthy(current_task)
    /\ HasTask(sheet_data)
    /\ LastTask(sheet_data).row \in hist.comment_rows
    /\ LastTask(sheet_data).row = row_idx - 2

(***************************************************************************)
(* C19.  In every state, a current category is the last category of the     *)
(* sheet record, and a current task is the last task of that category, on   *)
(* row task_row: categories[-1] and tasks[-1] exist wherever the task, the  *)
(* description and the input branches read them.                            *)
(***************************************************************************)
C19_CurrentIsLast ==
    /\ current_category # None =>
          /\ HasCategory(sheet_data)
          /\ LastCategory(sheet_data).category = current_category
    /\ current_task # None =>
          /\ HasTask(sheet_data)
          /\ LastTask(sheet_data).task = current_task
          /\ LastTask(sheet_data).row = task_row
    /\ pc = "walk" =>
          \A row \in RowsOf(input_columns) :
              /\ Classify(Walk, row) \in {"task", "comment"} => HasCategory(sheet_data)
              /\ Classify(Walk, row) = "description" => HasTask(sheet_data)
              /\ InputCells(Branch(Walk, row, row_idx), row_idx) # {}
                    => HasTask(Branch(Walk, row, row_idx).sheet_data)

\* a task is current in the second sheet, after a task of the first sheet
C19_Witness ==
    /\ pc = "walk"
    /\ sheet_no = 2
    /\ HasTask(data[1])
    /\ last.kind = "task"
    /\ current_task # None
    /\ LastTask(sheet_data).row = task_row

====
